---- MODULE Spec2Model ----
(***************************************************************************)
(* A model of devourer (src/devourer/api.py, src/devourer/async.py): the   *)
(* declarative API client generator.                                       *)
(*                                                                         *)
(* Strings (URL schemas, argument values, response bodies) are sequences   *)
(* of one-character strings, so that parsing and formatting are computed   *)
(* character by character, the way string.Formatter and str.format do.     *)
(*                                                                         *)
(* The specifications share the definitions:                               *)
(*   SpecConstruct  construction of one APIMethod                          *)
(*   SpecMethod     one APIMethod: schema assignment, call                 *)
(*   SpecClass      class creation through the GenericAPICreator metaclass *)
(*   SpecSync       synchronous calls on a GenericAPI client               *)
(*   Spec           calls on an AsyncAPI client, run by executor workers   *)
(*   SpecRequest    call_async on a GenericAPI client (AsyncRequest)       *)
(***************************************************************************)
EXTENDS Naturals, Sequences, FiniteSets, TLC

VARIABLES
    method,     \* SpecMethod: the APIMethod under test, [exists |-> FALSE] before construction
    mres,       \* SpecMethod: what the last operation on it did
    classes,    \* class name -> [bases, ns]: the classes that exist
    cres,       \* SpecClass: what the last class statement did
    inst,       \* instance id -> the client instance's attributes
    calls,      \* the calls made so far, in order of the bound-method call
    queue       \* Spec: the executor's work queue (indices into calls), FIFO

vars == <<method, mres, classes, cres, inst, calls, queue>>

----------------------------------------------------------------------------
(* Bounds *)

\* Most segments (a character, a brace, a placeholder) a schema is built from.
MaxSegs == 2

\* Most bound-method calls made in one behaviour.
MaxCalls == 2

\* Most times AsyncRequest.result runs finalize for one request.
MaxResults == 2

----------------------------------------------------------------------------
(* Strings *)

\* Strings are sequences of characters; "{" and "}" are the braces and "2" is the
\* only digit.

\* What a schema is put together from: a literal character, a lone brace (two in a
\* row make an escaped brace, an open and a close an anonymous field), a placeholder.
Segments == {<<"p">>, <<"{">>, <<"}">>, <<"{", "p", "}">>, <<"{", "q", "}">>}

RECURSIVE Flatten(_)
Flatten(ss) == IF ss = <<>> THEN <<>> ELSE Head(ss) \o Flatten(Tail(ss))

\* The schema strings tried: every concatenation of at most MaxSegs segments.
Schemas == {Flatten(ss) : ss \in UNION {[1..k -> Segments] : k \in 0..MaxSegs}}

Sub(s, a, b) == IF a > b THEN <<>> ELSE SubSeq(s, a, b)

IsBrace(c) == c \in {"{", "}"}

\* Index of the first character at or after i satisfying the test, 0 if none.
FirstBrace(s, i) ==
    LET J == {j \in i..Len(s) : IsBrace(s[j])}
    IN  IF J = {} THEN 0 ELSE CHOOSE j \in J : \A k \in J : j <= k

FirstOf(s, i, cs) ==
    LET J == {j \in i..Len(s) : s[j] \in cs}
    IN  IF J = {} THEN 0 ELSE CHOOSE j \in J : \A k \in J : j <= k

IsDigits(s) == Len(s) > 0 /\ \A j \in 1..Len(s) : s[j] = "2"

NoField == [present |-> FALSE, name |-> <<>>]
Field(n) == [present |-> TRUE, name |-> n]

(***************************************************************************)
(* string.Formatter().parse, which is _string.formatter_parser: one        *)
(* MarkupIterator step from position i.  The result is                     *)
(*   [kind |-> "end"]                        no more input                 *)
(*   [kind |-> "error"]                      ValueError                    *)
(*   [kind |-> "item", literal, field, next] a (literal_text, field_name)  *)
(* The alphabet has no ':', '!', '[' or '.', so a field is a plain name.   *)
(***************************************************************************)
MarkupStep(s, i) ==
    IF i > Len(s) THEN [kind |-> "end"]
    ELSE
    LET j == FirstBrace(s, i) IN
    IF j = 0
    THEN [kind |-> "item", literal |-> Sub(s, i, Len(s)), field |-> NoField,
          next |-> Len(s) + 1]
    ELSE
    LET c == s[j]
        at_end == j = Len(s)
    IN  IF c = "}" /\ (at_end \/ s[j + 1] # "}")
        THEN [kind |-> "error"]      \* Single '}' encountered in format string
        ELSE IF at_end               \* here c = "{"
        THEN [kind |-> "error"]      \* Single '{' encountered in format string
        ELSE IF s[j + 1] = c
        THEN \* an escaped brace: the literal keeps one brace, no markup follows
             [kind |-> "item", literal |-> Sub(s, i, j), field |-> NoField,
              next |-> j + 2]
        ELSE \* parse_field: the name runs to the next '}'; a '{' inside is an error
             LET e == FirstOf(s, j + 1, {"{", "}"}) IN
             IF e = 0 THEN [kind |-> "error"]   \* expected '}' before end of string
             ELSE IF s[e] = "{" THEN [kind |-> "error"]  \* unexpected '{' in field name
             ELSE [kind |-> "item", literal |-> Sub(s, i, j - 1),
                   field |-> Field(Sub(s, j + 1, e - 1)), next |-> e + 1]

RECURSIVE ParseFrom(_, _)
ParseFrom(s, i) ==
    LET m == MarkupStep(s, i) IN
    CASE m.kind = "end" -> [ok |-> TRUE, items |-> <<>>]
      [] m.kind = "error" -> [ok |-> FALSE, items |-> <<>>]
      [] OTHER ->
            LET rest == ParseFrom(s, m.next) IN
            IF rest.ok
            THEN [ok |-> TRUE,
                  items |-> <<[literal |-> m.literal, field |-> m.field]>> \o rest.items]
            ELSE rest

FormatterParse(s) == ParseFrom(s, 1)

\* [a[1] for a in Formatter().parse(schema) if a[1]]: the non-empty field names, in order.
RECURSIVE NamedFields(_)
NamedFields(items) ==
    IF items = <<>> THEN <<>>
    ELSE LET f == Head(items).field IN
         (IF f.present /\ f.name # <<>> THEN <<f.name>> ELSE <<>>)
            \o NamedFields(Tail(items))

SeqToSet(q) == {q[k] : k \in 1..Len(q)}

(***************************************************************************)
(* str.format called with keyword arguments only.  It runs the same        *)
(* MarkupIterator, writing each literal and each field's value as it goes. *)
(* A field with an empty or all-digit name is positional: IndexError.  A   *)
(* named field missing from kwargs: KeyError.  Values are strings, so      *)
(* format(value, '') is the value itself.                                  *)
(***************************************************************************)
RECURSIVE FormatFrom(_, _, _)
FormatFrom(s, i, kwargs) ==
    LET m == MarkupStep(s, i) IN
    CASE m.kind = "end" -> [raised |-> "none", text |-> <<>>]
      [] m.kind = "error" -> [raised |-> "ValueError", text |-> <<>>]
      [] OTHER ->
            LET f == m.field IN
            IF f.present /\ (f.name = <<>> \/ IsDigits(f.name))
            THEN [raised |-> "IndexError", text |-> <<>>]
            ELSE IF f.present /\ f.name \notin DOMAIN kwargs
            THEN [raised |-> "KeyError", text |-> <<>>]
            ELSE LET rest == FormatFrom(s, m.next, kwargs) IN
                 IF rest.raised # "none" THEN rest
                 ELSE [raised |-> "none",
                       text |-> m.literal \o (IF f.present THEN kwargs[f.name] ELSE <<>>)
                                   \o rest.text]

StrFormat(s, kwargs) == FormatFrom(s, 1, kwargs)

----------------------------------------------------------------------------
(* APIMethod *)

ALLOWED_HTTP_METHODS == {"get", "post", "put", "delete"}

\* The http_method arguments tried: the allow-list and some verbs outside it.
Verbs == ALLOWED_HTTP_METHODS \cup {"patch", "nonexistant"}

NoMethod == [exists |-> FALSE]

\* The schema setter: _schema is assigned first, then _params is derived; when the
\* parse raises ValueError the assignment to _params never happens.
SchemaSetter(m, schema) ==
    LET p == FormatterParse(schema) IN
    IF p.ok
    THEN [raised |-> "none",
          obj |-> [m EXCEPT !.schema = schema, !.params = NamedFields(p.items)]]
    ELSE [raised |-> "ValueError", obj |-> [m EXCEPT !.schema = schema]]

\* A mutant of the constructor: the allow-list check is dropped.
APIMethodInitNoCheck(http_method, schema) ==
    SchemaSetter([exists |-> TRUE, name |-> "", http_method |-> http_method,
                  params |-> <<>>, schema |-> <<>>, api |-> "unset"], schema)

\* APIMethod.__init__: the object exists for the caller only when nothing was raised.
\* name is None until the metaclass sets it; the attribute api does not exist until a
\* client instance sets it ("unset").
APIMethodInit(http_method, schema) ==
    IF http_method \notin ALLOWED_HTTP_METHODS
    THEN [raised |-> "ValueError", obj |-> NoMethod]
    ELSE SchemaSetter([exists |-> TRUE, name |-> "", http_method |-> http_method,
                       params |-> <<>>, schema |-> <<>>, api |-> "unset"], schema)

\* The keyword arguments tried: keys are names, values are strings; p's value may
\* itself hold braces.  A call may also pass one of payload, data, headers alone.
Keys == {<<"p">>, <<"q">>}
BodyKeys == {<<"p", "a", "y", "l", "o", "a", "d">>, <<"d", "a", "t", "a">>,
             <<"h", "e", "a", "d", "e", "r", "s">>}
Values == {<<"2">>, <<"{", "p", "}">>}
KeySets == SUBSET Keys \cup {{b} : b \in BodyKeys}
Kwargs == UNION {{f \in [K -> Values] : \A k \in K \ {<<"p">>} : f[k] = <<"2">>} :
                    K \in KeySets}

Restrict(f, D) == [k \in D |-> f[k]]

\* A mutant of the call: every keyword argument is passed on as a parameter.
APIMethodCallAllParams(m, kwargs) ==
    LET path == StrFormat(m.schema, kwargs) IN
    IF path.raised # "none"
    THEN [raised |-> path.raised, invoked |-> FALSE]
    ELSE [raised |-> "none", invoked |-> TRUE, http_method |-> m.http_method,
          url |-> path.text, params |-> kwargs]

\* A mutant of the call: the schema is checked against the keyword arguments but sent
\* as it stands, its placeholders not filled in.
APIMethodCallUnfilled(m, kwargs) ==
    IF StrFormat(m.schema, kwargs).raised # "none"
    THEN [raised |-> StrFormat(m.schema, kwargs).raised, invoked |-> FALSE]
    ELSE [raised |-> "none", invoked |-> TRUE, http_method |-> m.http_method,
          url |-> m.schema,
          params |-> Restrict(kwargs, {k \in DOMAIN kwargs : k \notin SeqToSet(m.params)})]

\* A mutant of the call: a schema that cannot be filled in is requested as it stands.
APIMethodCallLenient(m, kwargs) ==
    IF StrFormat(m.schema, kwargs).raised # "none"
    THEN [raised |-> "none", invoked |-> TRUE, http_method |-> m.http_method,
          url |-> m.schema, params |-> kwargs]
    ELSE APIMethodCallAllParams(m, kwargs)

\* APIMethod.__call__ up to the call of api.invoke: what invoke is called with, or
\* what was raised before it.  The dict comprehension runs first and cannot raise.
APIMethodCall(m, kwargs) ==
    LET params == Restrict(kwargs, {k \in DOMAIN kwargs : k \notin SeqToSet(m.params)})
        path == StrFormat(m.schema, kwargs)
    IN  IF path.raised # "none"
        THEN [raised |-> path.raised, invoked |-> FALSE]
        ELSE [raised |-> "none", invoked |-> TRUE, http_method |-> m.http_method,
              url |-> path.text, params |-> params]

----------------------------------------------------------------------------
(* SpecConstruct: constructions of an APIMethod.                           *)
(* SpecMethod: one constructed APIMethod, its schema assigned and called.  *)

MethodIdle == [op |-> "none"]

Construct(http_method, schema) ==
    /\ ~method.exists
    /\ LET r == APIMethodInit(http_method, schema) IN
        /\ method' = IF r.raised = "none" THEN r.obj ELSE NoMethod
        /\ mres' = [op |-> "init", http_method |-> http_method, schema |-> schema,
                    raised |-> r.raised]
    /\ UNCHANGED <<classes, cres, inst, calls, queue>>

SetSchema(schema) ==
    /\ method.exists
    /\ LET r == SchemaSetter(method, schema) IN
        /\ method' = r.obj
        /\ mres' = [op |-> "set", schema |-> schema, raised |-> r.raised]
    /\ UNCHANGED <<classes, cres, inst, calls, queue>>

CallMethod(kwargs) ==
    /\ method.exists
    /\ mres' = [op |-> "call", kwargs |-> kwargs, before |-> method,
                result |-> APIMethodCall(method, kwargs)]
    /\ UNCHANGED <<method, classes, cres, inst, calls, queue>>

NoLifecycle ==
    /\ classes = <<>>
    /\ cres = [op |-> "none"]
    /\ inst = <<>>
    /\ calls = <<>>
    /\ queue = <<>>

InitConstruct ==
    /\ method = NoMethod
    /\ mres = MethodIdle
    /\ NoLifecycle

NextConstruct == \E v \in Verbs, s \in Schemas : Construct(v, s)

SpecConstruct == InitConstruct /\ [][NextConstruct]_vars

\* The verbs of the objects whose schema is then assigned and which are then called.
MethodVerbs == {"get", "post"}

\* The state after a successful construction.
InitMethod ==
    /\ \E v \in MethodVerbs, s \in Schemas :
            /\ APIMethodInit(v, s).raised = "none"
            /\ method = APIMethodInit(v, s).obj
            /\ mres = [op |-> "init", http_method |-> v, schema |-> s, raised |-> "none"]
    /\ NoLifecycle

NextMethod ==
    \/ \E s \in Schemas : SetSchema(s)
    \/ \E k \in Kwargs : CallMethod(k)

SpecMethod == InitMethod /\ [][NextMethod]_vars

----------------------------------------------------------------------------
(* Classes and the GenericAPICreator metaclass *)

\* An attribute name '{prefix}{key}{suffix}', as the formatted names of the metaclass
\* are built: 'prepare_{}'.format(key) is Attr("prepare_", key, "").
Attr(prefix, key, suffix) == <<prefix, key, suffix>>
Plain(name) == Attr("", name, "")

\* The names APIMethods are declared under.
Names == {"posts", "comments"}

\* Values of class attributes.
Function(owner, name) == [kind |-> "function", owner |-> owner, name |-> name]
OuterCall(name) == [kind |-> "outer_call", name |-> name]
OuterAsyncCall(name) == [kind |-> "outer_async_call", name |-> name]
NoneValue == [kind |-> "None"]
Dict(items) == [kind |-> "dict", items |-> items]
TrueValue == [kind |-> "bool", value |-> TRUE]
Missing == [kind |-> "missing"]

\* The APIMethod declared under a name in a class body: posts = APIMethod('get', 'p'),
\* comments = APIMethod('get', 'p{p}').
Declared(key) ==
    APIMethodInit("get", IF key = "posts" THEN <<"p">> ELSE <<"p", "{", "p", "}">>).obj

Merge(f, g) == [k \in DOMAIN f \cup DOMAIN g |-> IF k \in DOMAIN g THEN g[k] ELSE f[k]]

Without(f, D) == [k \in DOMAIN f \ D |-> f[k]]

IsAPIMethod(v) == "exists" \in DOMAIN v

\* getattr on a class: its own namespace, then its bases' (single inheritance).
RECURSIVE Lookup(_, _, _)
Lookup(cs, c, attr) ==
    IF c \notin DOMAIN cs THEN Missing
    ELSE IF attr \in DOMAIN cs[c].ns THEN cs[c].ns[attr]
    ELSE IF cs[c].bases = <<>> THEN Missing
    ELSE Lookup(cs, cs[c].bases[1], attr)

RECURSIVE Ancestors(_, _)
Ancestors(cs, c) ==
    IF c \notin DOMAIN cs THEN {}
    ELSE {c} \cup (IF cs[c].bases = <<>> THEN {} ELSE Ancestors(cs, cs[c].bases[1]))

\* The classes api.py and async.py define with a plain class statement.
PlainClasses ==
    [c \in {"object", "GenericAPIBase", "AsyncAPIBase"} |->
        CASE c = "object" ->
                [bases |-> <<>>, meta |-> "type", body |-> <<>>, ns |-> <<>>]
          [] c = "GenericAPIBase" ->
                [bases |-> <<"object">>, meta |-> "type", body |-> <<>>,
                 ns |-> [a \in {Plain("_methods"), Plain("__init__"), Plain("prepare"),
                                Plain("finalize"), Plain("call"), Plain("call_async"),
                                Plain("invoke")} |->
                            IF a = Plain("_methods") THEN NoneValue
                            ELSE Function("GenericAPIBase", a)]]
          [] OTHER ->
                [bases |-> <<"GenericAPIBase">>, meta |-> "type", body |-> <<>>,
                 ns |-> [a \in {Plain("_methods"), Plain("__init__"), Plain("call")} |->
                            IF a = Plain("_methods") THEN NoneValue
                            ELSE Function("AsyncAPIBase", a)]]]

\* The attributes the metaclass synthesizes for the APIMethod declared under key.
Synthesized(cs, attrs, key) ==
    LET hooks ==
            [a \in {Attr("prepare_", key, ""), Plain(key), Attr("finalize_", key, "")} |->
                CASE a = Attr("prepare_", key, "") ->
                        IF Plain("prepare") \in DOMAIN attrs THEN attrs[Plain("prepare")]
                        ELSE Lookup(cs, "GenericAPI", Plain("prepare"))
                  [] a = Plain(key) ->
                        IF Attr("call_", key, "") \in DOMAIN attrs
                        THEN attrs[Attr("call_", key, "")]
                        ELSE OuterCall(key)
                  [] OTHER ->
                        IF Plain("finalize") \in DOMAIN attrs THEN attrs[Plain("finalize")]
                        ELSE Lookup(cs, "GenericAPI", Plain("finalize"))]
        generate_async_methods ==
            /\ Plain("generate_async_methods") \in DOMAIN attrs
            /\ attrs[Plain("generate_async_methods")] = TrueValue
    IN  IF generate_async_methods
        THEN Merge(hooks, [a \in {Attr("", key, "_async")} |-> OuterAsyncCall(key)])
        ELSE hooks

RECURSIVE SynthesizedAll(_, _, _)
SynthesizedAll(cs, attrs, keys) ==
    IF keys = {} THEN <<>>
    ELSE LET k == CHOOSE x \in keys : TRUE
         IN  Merge(Synthesized(cs, attrs, k), SynthesizedAll(cs, attrs, keys \ {k}))

\* The keys of the class body whose value is an APIMethod, and the attributes left in
\* the body after _methods is added and the descriptors and their call_X are deleted.
MethodKeys(attrs) == {a[2] : a \in {b \in DOMAIN attrs : IsAPIMethod(attrs[b])}}

RemainingAttrs(attrs) ==
    LET keys == MethodKeys(attrs)
        _methods == [k \in keys |-> [attrs[Plain(k)] EXCEPT !.name = k]]
    IN  Merge(Without(attrs, {Plain(k) : k \in keys} \cup {Attr("call_", k, "") : k \in keys}),
              [a \in {Plain("_methods")} |-> Dict(_methods)])

\* A mutant of the metaclass: the synthesized hooks are applied over the class body,
\* so a method-specific hook of the body loses to the synthesized one.
GenericAPICreatorNewSynthesizedWins(cs, name, bases, attrs) ==
    IF bases # <<"GenericAPIBase">>
    THEN [raised |-> "none",
          class |-> [bases |-> bases, meta |-> "GenericAPICreator", body |-> attrs,
                     ns |-> Merge(RemainingAttrs(attrs),
                                  SynthesizedAll(cs, attrs, MethodKeys(attrs)))]]
    ELSE [raised |-> "none",
          class |-> [bases |-> bases, meta |-> "GenericAPICreator", body |-> attrs,
                     ns |-> attrs]]

\* A mutant of the metaclass: nothing is deleted from the class body, so the raw
\* descriptors and the call_X overrides stay attributes of the class.
GenericAPICreatorNewKeepsBody(cs, name, bases, attrs) ==
    [raised |-> "none",
     class |-> [bases |-> bases, meta |-> "GenericAPICreator", body |-> attrs,
                ns |-> IF bases # <<"GenericAPIBase">>
                       THEN Merge(SynthesizedAll(cs, attrs, MethodKeys(attrs)),
                                  Merge(RemainingAttrs(attrs), attrs))
                       ELSE attrs]]

\* GenericAPICreator.__new__(mcs, name, bases, attrs), with the classes cs that exist
\* when it runs.  body keeps the class body as written, for reference.
GenericAPICreatorNew(cs, name, bases, attrs) ==
    IF bases # <<"GenericAPIBase">>
    THEN [raised |-> "none",
          class |-> [bases |-> bases, meta |-> "GenericAPICreator", body |-> attrs,
                     ns |-> Merge(SynthesizedAll(cs, attrs, MethodKeys(attrs)),
                                  RemainingAttrs(attrs))]]
    ELSE [raised |-> "none",
          class |-> [bases |-> bases, meta |-> "GenericAPICreator", body |-> attrs,
                     ns |-> attrs]]

Define(cs, name, r) ==
    IF r.raised = "none"
    THEN [c \in DOMAIN cs \cup {name} |-> IF c = name THEN r.class ELSE cs[c]]
    ELSE cs

\* The classes after import devourer: GenericAPI, then AsyncAPI, through the metaclass.
WithGenericAPI ==
    Define(PlainClasses, "GenericAPI",
           GenericAPICreatorNew(PlainClasses, "GenericAPI", <<"GenericAPIBase">>, <<>>))

FrameworkClasses ==
    Define(WithGenericAPI, "AsyncAPI",
           GenericAPICreatorNew(WithGenericAPI, "AsyncAPI", <<"AsyncAPIBase">>, <<>>))

\* The hook attributes a class body may define besides its APIMethods.
HookAttrs == {Plain("prepare"), Plain("finalize"), Attr("prepare_", "posts", ""),
              Attr("finalize_", "posts", ""), Attr("call_", "posts", "")}

\* The class bodies tried: which APIMethods are declared, which hooks are defined, and
\* whether generate_async_methods is set.
Bodies == [descs : {{}, {"posts"}, {"posts", "comments"}},
           hooks : SUBSET HookAttrs,
           generate_async_methods : BOOLEAN]

\* The attrs dict the class statement hands to the metaclass for a body of class name.
BodyAttrs(name, b) ==
    LET D == {Plain(k) : k \in b.descs} \cup b.hooks
             \cup (IF b.generate_async_methods THEN {Plain("generate_async_methods")} ELSE {})
    IN  [a \in D |->
            IF a = Plain("generate_async_methods") THEN TrueValue
            ELSE IF a \in b.hooks THEN Function(name, a)
            ELSE Declared(a[2])]

----------------------------------------------------------------------------
(* SpecClass: class statements of a user module *)

\* The names of the user's classes, in the order they are defined: the first derives
\* from a class of the framework or from object, each next one from the one before.
UserClasses == <<"Client", "Child">>

NextUserClass(cs) ==
    LET U == {i \in 1..Len(UserClasses) : UserClasses[i] \notin DOMAIN cs}
    IN  IF U = {} THEN 0 ELSE CHOOSE i \in U : \A j \in U : i <= j

BasesFor(i) == IF i = 1 THEN {"object", "GenericAPI", "AsyncAPI"} ELSE {UserClasses[i - 1]}

\* The first class takes every body; a derived class declares APIMethods and may
\* define the class-wide hooks.
BodiesFor(i) ==
    IF i = 1 THEN Bodies
    ELSE {b \in Bodies : b.hooks \subseteq {Plain("prepare"), Plain("finalize")}
                            /\ ~b.generate_async_methods}

CreateClass(base, b) ==
    LET i == NextUserClass(classes) IN
    /\ i # 0
    /\ base \in BasesFor(i)
    /\ b \in BodiesFor(i)
    /\ LET name == UserClasses[i]
           r == GenericAPICreatorNew(classes, name, <<base>>, BodyAttrs(name, b))
       IN  /\ classes' = Define(classes, name, r)
           /\ cres' = [op |-> "class", name |-> name, raised |-> r.raised]
    /\ UNCHANGED <<method, mres, inst, calls, queue>>

InitClass ==
    /\ classes = FrameworkClasses
    /\ cres = [op |-> "none"]
    /\ method = NoMethod
    /\ mres = MethodIdle
    /\ inst = <<>>
    /\ calls = <<>>
    /\ queue = <<>>

NextClass == \E base \in DOMAIN classes, b \in Bodies : CreateClass(base, b)

SpecClass == InitClass /\ [][NextClass]_vars

----------------------------------------------------------------------------
(* Values that travel through a call: positional arguments, responses, results *)

Str(s) == [kind |-> "str", s |-> s]
Bytes(s) == [kind |-> "bytes", s |-> s]
Int(n) == [kind |-> "int", n |-> n]

\* A requests response: what the hooks read of it.
Response(status_code, content) ==
    [kind |-> "response", status_code |-> status_code, content |-> content]

\* requests.Response.__bool__ is Response.ok: no 4xx or 5xx status.
Truthy(v) ==
    CASE v.kind = "response" -> v.status_code < 400
      [] v.kind = "None" -> FALSE
      [] OTHER -> TRUE

\* What the transport answers to a request: a response or a raised ConnectionError.
\* The bodies: a JSON list, a text that is no JSON, a byte that is no UTF-8, and JSON
\* held in a str.
Statuses == {200, 404}
Contents == {Bytes(<<"[", "2", "]">>), Bytes(<<"p">>), Bytes(<<"0xff">>), Str(<<"2">>)}
ConnectionError == [kind |-> "error", exc |-> "ConnectionError"]
Answers == {Response(st, c) : st \in Statuses, c \in Contents} \cup {ConnectionError}
NoAnswer == [kind |-> "none"]

\* How a piece of code ends: it returns a value or raises.
Return(v) == [kind |-> "return", value |-> v]
Raise(exc) == [kind |-> "raise", exc |-> exc]
Pending == [kind |-> "pending"]

\* bytes.decode('utf-8'): byte 0xff is in no UTF-8 text.
Utf8Decode(b) ==
    IF \E i \in 1..Len(b.s) : b.s[i] = "0xff"
    THEN Raise("UnicodeDecodeError")
    ELSE Return(Str(b.s))

\* json.loads on the texts used here: a value is the number 2 or a list of at most one
\* value; anything else, and anything left after the value, is a JSONDecodeError
\* (a ValueError).
RECURSIVE JsonValue(_, _)
JsonValue(s, i) ==
    IF i > Len(s) THEN [ok |-> FALSE]
    ELSE IF s[i] = "2" THEN [ok |-> TRUE, value |-> [json |-> "number", n |-> 2], next |-> i + 1]
    ELSE IF s[i] # "[" THEN [ok |-> FALSE]
    ELSE IF i + 1 <= Len(s) /\ s[i + 1] = "]"
    THEN [ok |-> TRUE, value |-> [json |-> "list", items |-> <<>>], next |-> i + 2]
    ELSE LET v == JsonValue(s, i + 1) IN
         IF v.ok /\ v.next <= Len(s) /\ s[v.next] = "]"
         THEN [ok |-> TRUE, value |-> [json |-> "list", items |-> <<v.value>>],
               next |-> v.next + 1]
         ELSE [ok |-> FALSE]

JsonLoads(text) ==
    LET v == JsonValue(text.s, 1) IN
    IF v.ok /\ v.next = Len(text.s) + 1
    THEN Return([kind |-> "json", value |-> v.value])
    ELSE Raise("ValueError")

----------------------------------------------------------------------------
(* GenericAPIBase: the hooks and the phases of a call *)

\* PrepareCallArgs.__init__: a missing callable becomes a function returning None.
Noop == [kind |-> "noop"]
PrepareCallArgs(call, args, kwargs) ==
    [call |-> IF call = NoneValue THEN Noop ELSE call, args |-> args, kwargs |-> kwargs]

\* self._methods[name]: the descriptor, referred to by the class that holds it.
GetItem(_methods, name) ==
    IF _methods.kind # "dict" THEN Raise("TypeError")
    ELSE IF name \notin DOMAIN _methods.items THEN Raise("KeyError")
    ELSE Return([kind |-> "APIMethod", key |-> name, descriptor |-> _methods.items[name]])

MethodsItem(cs, self, name) == GetItem(Lookup(cs, self.cls, Plain("_methods")), name)

\* A callable a class body's prepare_posts selects instead of the descriptor: it takes
\* any arguments and requests the path p.
CustomCall == [kind |-> "custom_call"]

\* PrepareCallArgs(call=self._methods[name], args=args, kwargs=kwargs)
PlanFor(item, args, kwargs) ==
    IF item.kind = "raise" THEN item ELSE Return(PrepareCallArgs(item.value, args, kwargs))

\* The prepare hooks.  GenericAPIBase.prepare selects the descriptor and passes the
\* arguments on.  The hooks a class body defines here: the class-wide prepare fills in
\* a default for the keyword p, prepare_posts selects CustomCall and puts a positional
\* argument before the caller's.
Prepare(cs, hook, self, name, args, kwargs) ==
    CASE hook = Function("GenericAPIBase", Plain("prepare")) ->
            PlanFor(MethodsItem(cs, self, name), args, kwargs)
      [] hook.kind = "function" /\ hook.name = Plain("prepare") ->
            PlanFor(MethodsItem(cs, self, name), args,
                    Merge([k \in {<<"p">>} |-> <<"2">>], kwargs))
      [] hook.kind = "function" /\ hook.name = Attr("prepare_", "posts", "") ->
            Return(PrepareCallArgs(CustomCall, <<Str(<<"2">>)>> \o args, kwargs))
      [] OTHER -> Raise("TypeError")

\* What APIMethod.__call__ hands to invoke becomes a request to self.url + path.
Invoke(self, r) ==
    IF ~r.invoked THEN Raise(r.raised)
    ELSE [kind |-> "request", http_method |-> r.http_method, url |-> self.url \o r.url,
          auth |-> self.auth, params |-> r.params]

\* prepared.call(self, *prepared.args, **prepared.kwargs) up to the transport: the
\* request handed to requests, or what the callable raised or returned without one.
\* APIMethod.__call__(self, api, **kwargs) takes no further positional argument;
\* invoke prefixes the path with the instance's url.
Dispatch(self, plan) ==
    CASE plan.call.kind = "APIMethod" ->
            IF plan.args # <<>> THEN Raise("TypeError")
            ELSE Invoke(self, APIMethodCall(plan.call.descriptor, plan.kwargs))
      [] plan.call.kind = "custom_call" ->
            [kind |-> "request", http_method |-> "get", url |-> self.url \o <<"p">>,
             auth |-> self.auth, params |-> plan.kwargs]
      [] OTHER -> Return(NoneValue)

\* The end of the dispatch once the transport has answered the request.
Answered(d, answer) ==
    IF d.kind # "request" THEN d
    ELSE IF answer.kind = "error" THEN Raise(answer.exc)
    ELSE Return(answer)

\* The answer a dispatch consumed.
Consumed(d, answer) == IF d.kind = "request" THEN answer ELSE NoAnswer

APIError(name, args, kwargs, result) ==
    [kind |-> "raise", exc |-> "APIError", name |-> name, args |-> args,
     kwargs |-> kwargs, result |-> result]

\* json.loads(content), content being result.content, decoded if it is bytes.
Decoded(content) == IF content.kind = "str" THEN Return(content) ELSE Utf8Decode(content)
LoadJson(text) == IF text.kind = "raise" THEN text ELSE JsonLoads(text.value)

\* A mutant of the default finalize: the status is checked whatever throw_on_error is.
GenericAPIBaseFinalizeAlwaysThrows(self, name, result, args, kwargs) ==
    IF result.kind # "response" THEN Raise("AttributeError")
    ELSE IF result.status_code >= 400 THEN APIError(name, args, kwargs, result)
    ELSE IF self.load_json THEN LoadJson(Decoded(result.content))
    ELSE Return(result.content)

\* A mutant of the default finalize: the body is parsed before the status is checked.
GenericAPIBaseFinalizeJsonFirst(self, name, result, args, kwargs) ==
    IF result.kind # "response" THEN Raise("AttributeError")
    ELSE IF self.load_json /\ LoadJson(Decoded(result.content)).kind = "raise"
    THEN LoadJson(Decoded(result.content))
    ELSE IF self.throw_on_error /\ result.status_code >= 400
    THEN APIError(name, args, kwargs, result)
    ELSE IF self.load_json THEN LoadJson(Decoded(result.content))
    ELSE Return(result.content)

\* GenericAPIBase.finalize(self, name, result, *args, **kwargs).  A result that is not
\* a response has no status_code and no content: AttributeError, at the first of the
\* two that is read.
GenericAPIBaseFinalize(self, name, result, args, kwargs) ==
    IF result.kind # "response" THEN Raise("AttributeError")
    ELSE IF self.throw_on_error /\ result.status_code >= 400
    THEN APIError(name, args, kwargs, result)
    ELSE IF self.load_json THEN LoadJson(Decoded(result.content))
    ELSE Return(result.content)

\* The finalize hooks, called as hook(name, *pos, **kwargs): the first positional
\* argument after the name is bound to result, the others to args.  The class-wide
\* finalize a class body defines here returns the response's status code.
Finalize(hook, self, name, pos, kwargs) ==
    IF pos = <<>> THEN Raise("TypeError")
    ELSE CASE hook = Function("GenericAPIBase", Plain("finalize")) ->
                GenericAPIBaseFinalize(self, name, pos[1], Tail(pos), kwargs)
           [] hook.kind = "function" /\ hook.name = Plain("finalize") ->
                IF pos[1].kind # "response" THEN Raise("AttributeError")
                ELSE Return(Int(pos[1].status_code))
           [] OTHER -> Raise("TypeError")

\* What a phase did, as recorded in a call's trace; for a dispatch also the request
\* handed to the transport, if one was.
PrepareEvent(hook, name, args, kwargs) ==
    [phase |-> "prepare", hook |-> hook, name |-> name, args |-> args, kwargs |-> kwargs]
NoRequest == [kind |-> "none"]
DispatchEventOf(self, plan, d) ==
    [phase |-> "dispatch", call |-> plan.call, api |-> self.id, args |-> plan.args,
     kwargs |-> plan.kwargs, sent |-> IF d.kind = "request" THEN d ELSE NoRequest]
DispatchEvent(self, plan) == DispatchEventOf(self, plan, Dispatch(self, plan))
FinalizeEvent(hook, name, pos, kwargs) ==
    [phase |-> "finalize", hook |-> hook, name |-> name, pos |-> pos, kwargs |-> kwargs]

\* getattr(self, 'prepare_X')(name, *args, **kwargs), on the caller's thread: first
\* line of call and of call_async alike.
Prepared(hook, name, args, kwargs, outcome) ==
    [trace |-> <<PrepareEvent(hook, name, args, kwargs)>>, outcome |-> outcome]

PrepareWith(cs, hook, self, name, args, kwargs) ==
    IF hook = Missing
    THEN [trace |-> <<>>, outcome |-> Raise("AttributeError")]
    ELSE Prepared(hook, name, args, kwargs, Prepare(cs, hook, self, name, args, kwargs))

PreparePhase(cs, self, name, args, kwargs) ==
    PrepareWith(cs, Lookup(cs, self.cls, Attr("prepare_", name, "")), self, name, args, kwargs)

\* The dispatch phase: the callable runs, the transport answers its request.
Dispatched(self, plan, d, answer) ==
    [event |-> DispatchEventOf(self, plan, d), outcome |-> Answered(d, answer),
     answer |-> Consumed(d, answer)]

DispatchPhase(self, plan, answer) == Dispatched(self, plan, Dispatch(self, plan), answer)

\* The finalize phase: hook(name, *pos, **kwargs).
FinalizePhase(hook, self, name, pos, kwargs) ==
    [event |-> FinalizeEvent(hook, name, pos, kwargs),
     outcome |-> Finalize(hook, self, name, pos, kwargs)]

\* The end of a call whose dispatch is over: finalize(name, result, *args, **kwargs)
\* unless the dispatch raised.
Finalized(trace, d, f) ==
    [trace |-> trace \o <<d.event, f.event>>, outcome |-> f.outcome, answer |-> d.answer]

AfterDispatch(hook, self, name, trace, plan, d) ==
    IF d.outcome.kind = "raise"
    THEN [trace |-> trace \o <<d.event>>, outcome |-> d.outcome, answer |-> d.answer]
    ELSE Finalized(trace, d, FinalizePhase(hook, self, name,
                                          <<d.outcome.value>> \o plan.args, plan.kwargs))

\* A mutant of the end of the call: the raw result is returned, finalize is skipped.
Unfinalized(trace, d) ==
    [trace |-> trace \o <<d.event>>, outcome |-> d.outcome, answer |-> d.answer]

AfterPrepareNoFinalize(hook, self, name, p, answer) ==
    IF p.outcome.kind = "raise"
    THEN [trace |-> p.trace, outcome |-> p.outcome, answer |-> NoAnswer]
    ELSE Unfinalized(p.trace, DispatchPhase(self, p.outcome.value, answer))

\* The rest of GenericAPIBase.call once prepare is over.  Python evaluates the finalize
\* hook lookup before the dispatch that computes its argument.
AfterPrepare(hook, self, name, p, answer) ==
    IF p.outcome.kind = "raise"
    THEN [trace |-> p.trace, outcome |-> p.outcome, answer |-> NoAnswer]
    ELSE IF hook = Missing
    THEN [trace |-> p.trace, outcome |-> Raise("AttributeError"), answer |-> NoAnswer]
    ELSE AfterDispatch(hook, self, name, p.trace, p.outcome.value,
                       DispatchPhase(self, p.outcome.value, answer))

\* A mutant of GenericAPIBase.call: the call is made on the instance the descriptor
\* refers back to (item.api), not on self.
CallOnBackReference(cs, other, name, args, kwargs, answer) ==
    AfterPrepare(Lookup(cs, other.cls, Attr("finalize_", name, "")), other, name,
                 PreparePhase(cs, other, name, args, kwargs), answer)

GenericAPIBaseCallOnBackReference(cs, self, name, args, kwargs, answer) ==
    CallOnBackReference(cs,
                        IF MethodsItem(cs, self, name).kind = "return"
                        THEN inst[MethodsItem(cs, self, name).value.descriptor.api]
                        ELSE self,
                        name, args, kwargs, answer)

\* GenericAPIBase.call(self, name, *args, **kwargs), with the transport's answer to the
\* request it makes, if it makes one.
GenericAPIBaseCall(cs, self, name, args, kwargs, answer) ==
    AfterPrepare(Lookup(cs, self.cls, Attr("finalize_", name, "")), self, name,
                 PreparePhase(cs, self, name, args, kwargs), answer)

----------------------------------------------------------------------------
(* Client instances *)

\* The class, among c and its bases, whose namespace holds attr.
RECURSIVE Holder(_, _, _)
Holder(cs, c, attr) ==
    IF attr \in DOMAIN cs[c].ns \/ cs[c].bases = <<>> THEN c
    ELSE Holder(cs, cs[c].bases[1], attr)

\* for item in self._methods.values(): item.api = self
SetApi(cs, cls, id) ==
    LET h == Holder(cs, cls, Plain("_methods"))
        items == cs[h].ns[Plain("_methods")].items
    IN  [cs EXCEPT ![h].ns[Plain("_methods")] =
                        Dict([k \in DOMAIN items |-> [items[k] EXCEPT !.api = id]])]

\* GenericAPIBase.__init__(self, url, auth, throw_on_error, load_json), and
\* AsyncAPIBase.__init__, which first creates the executor with max_workers=executors.
\* executors is 0 for an instance without an executor.  A class whose _methods is None
\* cannot be instantiated: None has no values().
NewInstance(cs, id, cls, url, auth, throw_on_error, load_json, executors) ==
    IF Lookup(cs, cls, Plain("_methods")).kind # "dict"
    THEN [raised |-> "AttributeError", classes |-> cs]
    ELSE [raised |-> "none",
          self |-> [id |-> id, cls |-> cls, url |-> url, auth |-> auth,
                    throw_on_error |-> throw_on_error, load_json |-> load_json,
                    executors |-> IF Lookup(cs, cls, Plain("__init__"))
                                        = Function("AsyncAPIBase", Plain("__init__"))
                                  THEN executors ELSE 0],
          classes |-> SetApi(cs, cls, id)]

----------------------------------------------------------------------------
(* The request lifecycle: what the specifications of calls share *)

\* The class bodies of the client: posts and comments declared, and at most one hook.
LifecycleBodies ==
    {b \in Bodies : /\ b.descs = Names
                    /\ ~b.generate_async_methods
                    /\ b.hooks \in {{}, {Plain("prepare")}, {Attr("prepare_", "posts", "")},
                                    {Plain("finalize")}}}

ClientClasses(base, b) ==
    Define(FrameworkClasses, "Client",
           GenericAPICreatorNew(FrameworkClasses, "Client", <<base>>, BodyAttrs("Client", b)))

\* The arguments of the bound-method calls: no positional ones, p=2 or nothing.
CallArgs == {<<>>}
CallKwargs == UNION {[K -> {<<"2">>}] : K \in SUBSET {<<"p">>}}

AllFlags == [throw_on_error : BOOLEAN, load_json : BOOLEAN]

\* The state after the client class is defined and one instance of it is created.
InitLifecycle(base, flags, widths) ==
    \E b \in LifecycleBodies, f \in flags, executors \in widths :
        LET r == NewInstance(ClientClasses(base, b), "api", "Client", <<"u">>, NoneValue,
                             f.throw_on_error, f.load_json, executors)
        IN  /\ r.raised = "none"
            /\ classes = r.classes
            /\ inst = [i \in {"api"} |-> r.self]
            /\ calls = <<>>
            /\ queue = <<>>
            /\ cres = [op |-> "none"]
            /\ method = NoMethod
            /\ mres = MethodIdle

\* A call as the model records it: the bound-method call made and the handle it gave
\* the caller ("value", "future", "request", or "nothing" when it raised); the phases
\* run for it so far (trace) and the thread each ran on (where); the plan and the
\* finalize callback bound for it; the transport's answer; how the call ended
\* (outcome); what the caller's last retrieval gave (seen), whether the call was
\* complete then (seen_when), and whether a retrieval has timed out (timed_out).
CallRecord(id, handle, name, args, kwargs, status, phases, plan, callback, answer, outcome) ==
    [inst |-> id, handle |-> handle, name |-> name, args |-> args, kwargs |-> kwargs,
     status |-> status, trace |-> phases.trace, where |-> phases.where, plan |-> plan,
     callback |-> callback, answer |-> answer, outcome |-> outcome,
     seen |-> IF handle \in {"value", "nothing"} THEN outcome ELSE [kind |-> "pending"],
     seen_when |-> IF handle \in {"value", "nothing"} THEN "complete" ELSE "never",
     timed_out |-> FALSE]

NoPlan == [kind |-> "none"]

\* The phases in trace all ran on thread.
On(thread, trace) == [trace |-> trace, where |-> [j \in 1..Len(trace) |-> thread]]

----------------------------------------------------------------------------
(* SpecSync: synchronous calls on a GenericAPI client *)

SyncRecord(id, name, args, kwargs, r) ==
    CallRecord(id, "value", name, args, kwargs,
               IF r.outcome.kind = "raise" THEN "raised" ELSE "returned",
               On("caller", r.trace), NoPlan, NoPlan, r.answer, r.outcome)

\* api.X(**kwargs) where X forwards to GenericAPIBase.call: the whole call, its
\* request answered by the transport.
SyncCall(id, name, args, kwargs, answer) ==
    /\ Len(calls) < MaxCalls
    /\ Lookup(classes, inst[id].cls, Plain(name)) = OuterCall(name)
    /\ Lookup(classes, inst[id].cls, Plain("call")) = Function("GenericAPIBase", Plain("call"))
    /\ calls' = Append(calls, SyncRecord(id, name, args, kwargs,
                                         GenericAPIBaseCall(classes, inst[id], name, args,
                                                            kwargs, answer)))
    /\ UNCHANGED <<method, mres, classes, cres, inst, queue>>

InitSync == InitLifecycle("GenericAPI", AllFlags, {0})

NextSync ==
    \E id \in DOMAIN inst, name \in Names, args \in CallArgs, kwargs \in CallKwargs,
       answer \in Answers :
        SyncCall(id, name, args, kwargs, answer)

SpecSync == InitSync /\ [][NextSync]_vars

----------------------------------------------------------------------------
(* Spec: calls on an AsyncAPI client, run by the executor's workers *)

\* A mutant of AsyncAPIBase.call: the callable is started on the caller's thread, and
\* what it raises before its request escapes from the bound-method call.
Escaped(id, name, args, kwargs, p, d) ==
    CallRecord(id, "nothing", name, args, kwargs, "raised",
               On("caller", p.trace \o <<d.event>>), NoPlan, NoPlan, NoAnswer, d.outcome)

Submitted(id, name, args, kwargs, p, hook) ==
    CallRecord(id, "future", name, args, kwargs, "queued", On("caller", p.trace),
               p.outcome.value,
               [hook |-> hook, name |-> name, args |-> p.outcome.value.args,
                kwargs |-> p.outcome.value.kwargs],
               NoAnswer, Pending)

NotSubmitted(id, name, args, kwargs, p, outcome) ==
    CallRecord(id, "nothing", name, args, kwargs, "raised", On("caller", p.trace),
               NoPlan, NoPlan, NoAnswer, outcome)

AfterPrepareEager(id, self, name, args, kwargs, p, hook) ==
    IF p.outcome.kind = "raise" THEN NotSubmitted(id, name, args, kwargs, p, p.outcome)
    ELSE IF Dispatch(self, p.outcome.value).kind = "raise"
    THEN Escaped(id, name, args, kwargs, p, DispatchPhase(self, p.outcome.value, NoAnswer))
    ELSE Submitted(id, name, args, kwargs, p, hook)

\* A mutant of AsyncAPIBase.call: the bound method returns only once a worker has
\* taken the task and sent its request.
AfterPrepareSubmitAndWait(id, self, name, args, kwargs, p, hook) ==
    IF p.outcome.kind = "raise" THEN NotSubmitted(id, name, args, kwargs, p, p.outcome)
    ELSE [Submitted(id, name, args, kwargs, p, hook) EXCEPT !.status = "running"]

\* A mutant of AsyncAPIBase.call: the instance keeps one Call Plan and every call
\* after the first submits that one.
AfterPrepareSubmitSharedPlan(id, self, name, args, kwargs, p, hook) ==
    IF p.outcome.kind = "raise" THEN NotSubmitted(id, name, args, kwargs, p, p.outcome)
    ELSE IF calls # <<>> /\ calls[1].handle = "future"
    THEN Submitted(id, name, args, kwargs, [p EXCEPT !.outcome = Return(calls[1].plan)], hook)
    ELSE Submitted(id, name, args, kwargs, p, hook)

\* AsyncAPIBase.call after its first line: prepare_X has run on the caller's thread;
\* method_partial and callback_partial bind the plan's callable and finalize_X to the
\* plan's arguments, and the pair is submitted to the executor as one task.
AfterPrepareSubmit(id, self, name, args, kwargs, p, hook) ==
    IF p.outcome.kind = "raise" THEN NotSubmitted(id, name, args, kwargs, p, p.outcome)
    ELSE IF hook = Missing
    THEN NotSubmitted(id, name, args, kwargs, p, Raise("AttributeError"))
    ELSE Submitted(id, name, args, kwargs, p, hook)

\* AsyncAPIBase.call(self, name, *args, **kwargs): the record of the call when the
\* bound method returns the future (or raises).
AsyncAPIBaseCall(cs, id, self, name, args, kwargs) ==
    AfterPrepareSubmit(id, self, name, args, kwargs,
                       PreparePhase(cs, self, name, args, kwargs),
                       Lookup(cs, self.cls, Attr("finalize_", name, "")))

\* api.X(**kwargs) on an AsyncAPI client: X forwards to AsyncAPIBase.call.
AsyncCall(id, name, args, kwargs) ==
    /\ Len(calls) < MaxCalls
    /\ Lookup(classes, inst[id].cls, Plain(name)) = OuterCall(name)
    /\ Lookup(classes, inst[id].cls, Plain("call")) = Function("AsyncAPIBase", Plain("call"))
    /\ calls' = Append(calls, AsyncAPIBaseCall(classes, id, inst[id], name, args, kwargs))
    /\ queue' = IF calls'[Len(calls')].handle = "future"
                THEN Append(queue, Len(calls')) ELSE queue
    /\ UNCHANGED <<method, mres, classes, cres, inst>>

\* The task c(m()) once m() is over: callback_partial(result) is
\* finalize_X(name, *plan.args, result, **plan.kwargs), unless m() raised; the future
\* holds what the task returned or raised.
TaskDone(c, d, f) ==
    [c EXCEPT !.status = "finished",
              !.trace = c.trace \o <<d.event, f.event>>,
              !.where = c.where \o <<"task", "task">>,
              !.answer = d.answer,
              !.outcome = f.outcome]

TaskEnd(c, self, d) ==
    IF d.outcome.kind = "raise"
    THEN [c EXCEPT !.status = "finished", !.trace = c.trace \o <<d.event>>,
                   !.where = c.where \o <<"task">>, !.answer = d.answer,
                   !.outcome = d.outcome]
    ELSE TaskDone(c, d, FinalizePhase(c.callback.hook, self, c.callback.name,
                                      c.callback.args \o <<d.outcome.value>>,
                                      c.callback.kwargs))

Running == {j \in 1..Len(calls) : calls[j].status = "running"}

\* Every instance has its own executor: the tasks running in the executor of instance
\* id, and the tasks waiting in it, oldest first (queue holds the waiting tasks of all
\* executors in the order they were submitted).
RunningOn(id) == {j \in Running : calls[j].inst = id}
QueueOf(id) == SelectSeq(queue, LAMBDA j : calls[j].inst = id)

\* An idle worker of an executor takes its oldest task and calls m(): the callable
\* runs up to its request, or ends the task when it raises or returns without one.
WorkerStart(i) ==
    /\ QueueOf(calls[i].inst) # <<>>
    /\ i = Head(QueueOf(calls[i].inst))
    /\ Cardinality(RunningOn(calls[i].inst)) < inst[calls[i].inst].executors
    /\ queue' = SelectSeq(queue, LAMBDA j : j # i)
    /\ calls' = [calls EXCEPT ![i] =
                    IF Dispatch(inst[calls[i].inst], calls[i].plan).kind = "request"
                    THEN [calls[i] EXCEPT !.status = "running"]
                    ELSE TaskEnd(calls[i], inst[calls[i].inst],
                                 DispatchPhase(inst[calls[i].inst], calls[i].plan, NoAnswer))]
    /\ UNCHANGED <<method, mres, classes, cres, inst>>

\* The transport answers the request of a running task; the task goes on to finalize.
WorkerFinish(i, answer) ==
    /\ i \in Running
    /\ calls[i].handle = "future"
    /\ calls' = [calls EXCEPT ![i] =
                    TaskEnd(calls[i], inst[calls[i].inst],
                            DispatchPhase(inst[calls[i].inst], calls[i].plan, answer))]
    /\ UNCHANGED <<method, mres, classes, cres, inst, queue>>

\* future.result(timeout): the task's return value or exception once the task is
\* over, TimeoutError when the timeout passes first.
FutureResult(i) ==
    /\ i \in 1..Len(calls)
    /\ calls[i].handle = "future"
    /\ calls' = [calls EXCEPT ![i] =
                    IF calls[i].status = "finished"
                    THEN [calls[i] EXCEPT !.seen = calls[i].outcome, !.seen_when = "complete"]
                    ELSE [calls[i] EXCEPT !.seen = Raise("TimeoutError"),
                                          !.seen_when = "incomplete", !.timed_out = TRUE]]
    /\ UNCHANGED <<method, mres, classes, cres, inst, queue>>

\* The configurations and pool widths of the asynchronous clients, the calls made on
\* them and the transport's answers: a success with a JSON body, an error status with
\* a body that is no JSON, no response at all.
AsyncFlags == {f \in AllFlags : f.throw_on_error # f.load_json}
AsyncSignatures ==
    {s \in [name : Names, args : CallArgs, kwargs : CallKwargs] :
        s.name = "posts" => s.kwargs = <<>>}
AsyncAnswers ==
    {Response(200, Bytes(<<"[", "2", "]">>)), Response(404, Bytes(<<"p">>)), ConnectionError}
DEFAULT_EXECUTORS == 2
Widths == {1, DEFAULT_EXECUTORS}

Init == InitLifecycle("AsyncAPI", AsyncFlags, Widths)

Next ==
    \/ \E id \in DOMAIN inst, s \in AsyncSignatures : AsyncCall(id, s.name, s.args, s.kwargs)
    \/ \E i \in 1..Len(calls) : WorkerStart(i)
    \/ \E i \in 1..Len(calls), answer \in AsyncAnswers : WorkerFinish(i, answer)
    \/ \E i \in 1..Len(calls) : FutureResult(i)

Spec == Init /\ [][Next]_vars

----------------------------------------------------------------------------
(* SpecRequest: call_async on a GenericAPI client, run by AsyncRequest greenlets *)

\* AsyncRequest(self, prepare_func, finalize_func): response is None, the greenlet is
\* spawned; finalize_func looks finalize_X up when it is called.
Spawned(id, name, args, kwargs, p) ==
    CallRecord(id, "request", name, args, kwargs, "spawned", On("caller", p.trace),
               p.outcome.value, [name |-> name], NoAnswer, Pending)

AfterPrepareSpawn(id, name, args, kwargs, p) ==
    IF p.outcome.kind = "raise" THEN NotSubmitted(id, name, args, kwargs, p, p.outcome)
    ELSE Spawned(id, name, args, kwargs, p)

\* GenericAPIBase.call_async(self, name, *args, **kwargs)
GenericAPIBaseCallAsync(cs, id, self, name, args, kwargs) ==
    AfterPrepareSpawn(id, name, args, kwargs, PreparePhase(cs, self, name, args, kwargs))

CallAsync(id, name, args, kwargs) ==
    /\ Len(calls) < MaxCalls
    /\ Lookup(classes, inst[id].cls, Plain("call_async"))
            = Function("GenericAPIBase", Plain("call_async"))
    /\ calls' = Append(calls, GenericAPIBaseCallAsync(classes, id, inst[id], name, args, kwargs))
    /\ UNCHANGED <<method, mres, classes, cres, inst, queue>>

\* AsyncRequest.call is over: self.response is what the callable returned; when it
\* raised, the greenlet dies with the exception and self.response stays None.
GreenletEnd(c, d) ==
    [c EXCEPT !.status = "finished", !.trace = c.trace \o <<d.event>>,
              !.where = c.where \o <<"greenlet">>, !.answer = d.answer,
              !.outcome = d.outcome]

\* The greenlet runs AsyncRequest.call up to the callable's request.
GreenletStart(i) ==
    /\ calls[i].status = "spawned"
    /\ calls' = [calls EXCEPT ![i] =
                    IF Dispatch(inst[calls[i].inst], calls[i].plan).kind = "request"
                    THEN [calls[i] EXCEPT !.status = "running"]
                    ELSE GreenletEnd(calls[i], DispatchPhase(inst[calls[i].inst],
                                                             calls[i].plan, NoAnswer))]
    /\ UNCHANGED <<method, mres, classes, cres, inst, queue>>

\* The transport answers the greenlet's request.
GreenletFinish(i, answer) ==
    /\ calls[i].status = "running"
    /\ calls[i].handle = "request"
    /\ calls' = [calls EXCEPT ![i] =
                    GreenletEnd(calls[i], DispatchPhase(inst[calls[i].inst],
                                                        calls[i].plan, answer))]
    /\ UNCHANGED <<method, mres, classes, cres, inst, queue>>

\* self.response of the AsyncRequest.
ResponseOf(c) ==
    IF c.status = "finished" /\ c.outcome.kind = "return" THEN c.outcome.value ELSE NoneValue

Finalizations(c) == Cardinality({j \in 1..Len(c.trace) : c.trace[j].phase = "finalize"})

Retrieved(c, f) ==
    [c EXCEPT !.trace = c.trace \o <<f.event>>, !.where = c.where \o <<"caller">>,
              !.seen = f.outcome, !.seen_when = "complete"]

\* AsyncRequest.result(timeout): join the greenlet for at most timeout, then
\* finalize_func(self.response) if self.response is truthy, else None.
AsyncRequestResult(cs, c, self) ==
    IF c.status # "finished"
    THEN [c EXCEPT !.seen = Return(NoneValue), !.seen_when = "incomplete", !.timed_out = TRUE]
    ELSE IF ~Truthy(ResponseOf(c))
    THEN [c EXCEPT !.seen = Return(NoneValue), !.seen_when = "complete"]
    ELSE Retrieved(c, FinalizePhase(Lookup(cs, self.cls, Attr("finalize_", c.callback.name, "")),
                                    self, c.callback.name, <<ResponseOf(c)>>, <<>>))

RequestResult(i) ==
    /\ calls[i].handle = "request"
    /\ Finalizations(calls[i]) < MaxResults
    /\ calls' = [calls EXCEPT ![i] = AsyncRequestResult(classes, calls[i], inst[calls[i].inst])]
    /\ UNCHANGED <<method, mres, classes, cres, inst, queue>>

InitRequest == InitLifecycle("GenericAPI", AsyncFlags, {0})

NextRequest ==
    \/ \E id \in DOMAIN inst, s \in AsyncSignatures : CallAsync(id, s.name, s.args, s.kwargs)
    \/ \E i \in 1..Len(calls) : GreenletStart(i)
    \/ \E i \in 1..Len(calls), answer \in AsyncAnswers : GreenletFinish(i, answer)
    \/ \E i \in 1..Len(calls) : RequestResult(i)

SpecRequest == InitRequest /\ [][NextRequest]_vars

----------------------------------------------------------------------------
(* SpecInstances: two instances of one client class, created and called in any order *)

InstanceIds == {"a", "b"}

\* auth=(user, password)
BasicAuth == [kind |-> "tuple", user |-> <<"p">>, password |-> <<"2">>]

\* The two instances differ in url, auth and both flags.
ConfigOf(id) ==
    IF id = "a"
    THEN [url |-> <<"u">>, auth |-> NoneValue, throw_on_error |-> TRUE, load_json |-> FALSE]
    ELSE [url |-> <<"v">>, auth |-> BasicAuth, throw_on_error |-> FALSE, load_json |-> TRUE]

WithInstance(id, self) == [j \in DOMAIN inst \cup {id} |-> IF j = id THEN self ELSE inst[j]]

\* Client(url, auth, throw_on_error=..., load_json=...): __init__ makes every descriptor
\* of the class refer back to the new instance.
CreateInstance(id) ==
    /\ id \notin DOMAIN inst
    /\ LET r == NewInstance(classes, id, "Client", ConfigOf(id).url, ConfigOf(id).auth,
                            ConfigOf(id).throw_on_error, ConfigOf(id).load_json,
                            DEFAULT_EXECUTORS)
       IN  /\ r.raised = "none"
           /\ classes' = r.classes
           /\ inst' = WithInstance(id, r.self)
    /\ UNCHANGED <<method, mres, cres, calls, queue>>

InstanceBodies == {b \in LifecycleBodies : b.hooks \in {{}, {Plain("prepare")}}}
InstanceSignatures == {s \in AsyncSignatures : s.name = "comments"}
InstanceAnswers == {Response(200, Bytes(<<"[", "2", "]">>)), Response(404, Bytes(<<"p">>))}

InitInstances ==
    /\ \E base \in {"GenericAPI", "AsyncAPI"}, b \in InstanceBodies :
            classes = ClientClasses(base, b)
    /\ inst = <<>>
    /\ calls = <<>>
    /\ queue = <<>>
    /\ cres = [op |-> "none"]
    /\ method = NoMethod
    /\ mres = MethodIdle

NextInstances ==
    \/ \E id \in InstanceIds : CreateInstance(id)
    \/ \E id \in DOMAIN inst, s \in InstanceSignatures, answer \in InstanceAnswers :
            SyncCall(id, s.name, s.args, s.kwargs, answer)
    \/ \E id \in DOMAIN inst, s \in InstanceSignatures : AsyncCall(id, s.name, s.args, s.kwargs)
    \/ \E i \in 1..Len(calls) : WorkerStart(i)
    \/ \E i \in 1..Len(calls), answer \in InstanceAnswers : WorkerFinish(i, answer)

SpecInstances == InitInstances /\ [][NextInstances]_vars

----------------------------------------------------------------------------
(* Claims about class creation, checked under SpecClass *)

DefaultHook(name) == Function("GenericAPIBase", Plain(name))

\* The hook the three-tier lookup names for the APIMethod X of a class body: the
\* method-specific one, else the class-wide one, else the framework's.
ThreeTier(body, prefix, name, X) ==
    IF Attr(prefix, X, "") \in DOMAIN body THEN body[Attr(prefix, X, "")]
    ELSE IF Plain(name) \in DOMAIN body THEN body[Plain(name)]
    ELSE DefaultHook(name)

\* C2: for every class created through the metaclass and every APIMethod X declared in
\* its body, prepare_X and finalize_X are the method-specific hook of the body if it has
\* one, else the body's class-wide prepare / finalize if it has one, else the framework
\* default; X is the body's call_X if it has one, else the forwarder to call(X, ...).
C2_ThreeTierLookup ==
    \A c \in DOMAIN classes :
        classes[c].meta = "GenericAPICreator" =>
            \A X \in MethodKeys(classes[c].body) :
                LET body == classes[c].body
                    ns == classes[c].ns
                IN  /\ {Attr("prepare_", X, ""), Plain(X), Attr("finalize_", X, "")}
                            \subseteq DOMAIN ns
                    /\ ns[Attr("prepare_", X, "")] = ThreeTier(body, "prepare_", "prepare", X)
                    /\ ns[Attr("finalize_", X, "")] = ThreeTier(body, "finalize_", "finalize", X)
                    /\ ns[Plain(X)] = IF Attr("call_", X, "") \in DOMAIN body
                                      THEN body[Attr("call_", X, "")]
                                      ELSE OuterCall(X)

\* C2 witness: a class that declares posts and comments, defines prepare_posts and the
\* class-wide prepare and finalize: prepare_posts is the method-specific one, and
\* prepare_comments and finalize_posts are the class-wide ones.
C2_Witness ==
    /\ "Client" \in DOMAIN classes
    /\ LET body == classes["Client"].body
           ns == classes["Client"].ns
       IN  /\ MethodKeys(body) = {"posts", "comments"}
           /\ {Attr("prepare_", "posts", ""), Plain("prepare"), Plain("finalize")}
                    \subseteq DOMAIN body
           /\ Attr("finalize_", "posts", "") \notin DOMAIN body
           /\ ns[Attr("prepare_", "posts", "")] = Function("Client", Attr("prepare_", "posts", ""))
           /\ ns[Attr("prepare_", "comments", "")] = Function("Client", Plain("prepare"))
           /\ ns[Attr("finalize_", "posts", "")] = Function("Client", Plain("finalize"))

C15_InheritedClassWideHook ==
    \A c \in DOMAIN classes :
        (classes[c].meta = "GenericAPICreator"
            /\ classes[c].bases # <<"GenericAPIBase">>
            /\ "GenericAPIBase" \in Ancestors(classes, c)) =>
            \A X \in MethodKeys(classes[c].body), h \in {"prepare", "finalize"} :
                (\A a \in Ancestors(classes, c) :
                        Attr(h \o "_", X, "") \notin DOMAIN classes[a].body) =>
                    Lookup(classes, c, Attr(h \o "_", X, "")) = Lookup(classes, c, Plain(h))

\* C24: for every client class and every name X, when X on the class (its own or an
\* inherited attribute) is the forwarder to call(X, ...), the _methods of the class is
\* a map that has the key X.
C24_ForwarderHasDescriptor ==
    \A c \in DOMAIN classes :
        (classes[c].meta = "GenericAPICreator" /\ "GenericAPIBase" \in Ancestors(classes, c)) =>
            \A X \in Names :
                Lookup(classes, c, Plain(X)) = OuterCall(X) =>
                    /\ Lookup(classes, c, Plain("_methods")).kind = "dict"
                    /\ X \in DOMAIN Lookup(classes, c, Plain("_methods")).items

\* C9: a class created through the metaclass without GenericAPIBase among its
\* ancestors does not come to exist: its creation fails.
C9_MissingBaseFailsAtCreation ==
    \A c \in DOMAIN classes :
        classes[c].meta = "GenericAPICreator" =>
            "GenericAPIBase" \in Ancestors(classes, c)

----------------------------------------------------------------------------
(* Claims about APIMethod, checked under SpecMethod *)

\* The schema's literals and the values of its fields, joined in order.
RECURSIVE Render(_, _)
Render(items, kwargs) ==
    IF items = <<>> THEN <<>>
    ELSE Head(items).literal
            \o (IF Head(items).field.present THEN kwargs[Head(items).field.name] ELSE <<>>)
            \o Render(Tail(items), kwargs)

PlaceholderNames(schema) == SeqToSet(NamedFields(FormatterParse(schema).items))

\* C4: whenever a call of an APIMethod with keyword arguments K reaches invoke, the
\* params are exactly K's entries whose keys are not placeholder names of the schema,
\* the path is the schema with every placeholder replaced by K's value for it, the verb
\* is the descriptor's http_method, and the descriptor is what it was before the call.
C4_CallPartitionsKwargs ==
    (mres.op = "call" /\ mres.result.invoked) =>
        LET K == mres.kwargs
            m == mres.before
            r == mres.result
            names == PlaceholderNames(m.schema)
        IN  /\ DOMAIN r.params = DOMAIN K \ names
            /\ \A k \in DOMAIN r.params : r.params[k] = K[k]
            /\ names \subseteq DOMAIN K
            /\ r.url = Render(FormatterParse(m.schema).items, K)
            /\ r.http_method = m.http_method
            /\ method = m

\* C4 witness: a call that reached invoke, where one keyword was consumed by the
\* template and another was passed on as a parameter.
C4_Witness ==
    /\ mres.op = "call"
    /\ mres.result.invoked
    /\ DOMAIN mres.result.params # {}
    /\ DOMAIN mres.result.params # DOMAIN mres.kwargs

\* C10 as stated: a construction succeeds if and only if its verb is in the allow-list.
C10_SucceedsIffVerbAllowed ==
    mres.op = "init" =>
        (mres.raised = "none" <=> mres.http_method \in ALLOWED_HTTP_METHODS)

\* C10 as amended: a verb outside the allow-list always fails the construction with
\* ValueError and leaves no object; a verb of the allow-list succeeds whenever the
\* schema is a well-formed format string (a malformed schema fails it, with ValueError
\* too); every APIMethod that exists has a verb of the allow-list.
C10_VerbAllowList ==
    /\ method.exists => method.http_method \in ALLOWED_HTTP_METHODS
    /\ mres.op = "init" =>
        /\ mres.http_method \notin ALLOWED_HTTP_METHODS =>
                (mres.raised = "ValueError" /\ ~method.exists)
        /\ (mres.http_method \in ALLOWED_HTTP_METHODS /\ FormatterParse(mres.schema).ok) =>
                (mres.raised = "none" /\ method.exists
                    /\ method.http_method = mres.http_method)
        /\ (mres.http_method \in ALLOWED_HTTP_METHODS /\ ~FormatterParse(mres.schema).ok) =>
                (mres.raised = "ValueError" /\ ~method.exists)

\* C10 witness: a construction with a verb outside the allow-list was refused.
C10_Witness ==
    /\ mres.op = "init"
    /\ mres.http_method \notin ALLOWED_HTTP_METHODS
    /\ mres.raised = "ValueError"
    /\ ~method.exists

\* C11: in every state the APIMethod's params are the named fields of its current
\* schema, in order of appearance; the schema is a format string that has them.
C11_ParamsFollowSchema ==
    method.exists =>
        /\ FormatterParse(method.schema).ok
        /\ method.params = NamedFields(FormatterParse(method.schema).items)

\* C20: of the keyword arguments of a call that reaches invoke, those under payload,
\* data and headers are not among the query parameters invoke is called with; only
\* the other keys that the template did not consume are.
C20_BodyKeysNotQueryParams ==
    (mres.op = "call" /\ mres.result.invoked) =>
        /\ DOMAIN mres.result.params \cap BodyKeys = {}
        /\ DOMAIN mres.result.params
                = (DOMAIN mres.kwargs \ PlaceholderNames(mres.before.schema)) \ BodyKeys

HasBrace(s) == \E j \in 1..Len(s) : IsBrace(s[j])

\* The params the schema setter would derive from a path: none also when the path
\* does not parse.
ParamsOfPath(parsed) == IF parsed.ok THEN NamedFields(parsed.items) ELSE <<>>

\* The schema has no escaped brace: no literal of it holds a brace.
NoEscapedBrace(schema) ==
    \A j \in 1..Len(FormatterParse(schema).items) :
        ~HasBrace(FormatterParse(schema).items[j].literal)

\* C22 as stated: the path of every call that reaches invoke, parsed again, has no
\* named field, whatever the schema and the values of the keyword arguments.
C22_RoundTripAlways ==
    (mres.op = "call" /\ mres.result.invoked) =>
        ParamsOfPath(FormatterParse(mres.result.url)) = <<>>

\* C22, amended: when the schema has no escaped brace and the values given for its
\* placeholders hold no brace, the path of a call that reaches invoke holds no brace:
\* it parses again, as one literal at most, with no field.
C22_RoundTripPlain ==
    (/\ mres.op = "call"
     /\ mres.result.invoked
     /\ NoEscapedBrace(mres.before.schema)
     /\ \A k \in PlaceholderNames(mres.before.schema) : ~HasBrace(mres.kwargs[k])) =>
        /\ ~HasBrace(mres.result.url)
        /\ FormatterParse(mres.result.url).ok
        /\ ParamsOfPath(FormatterParse(mres.result.url)) = <<>>
        /\ \A j \in 1..Len(FormatterParse(mres.result.url).items) :
                ~FormatterParse(mres.result.url).items[j].field.present

\* C22 witness: the schema p{p} called with p=2 reached invoke with the path p2.
C22_Witness ==
    /\ mres.op = "call"
    /\ mres.result.invoked
    /\ mres.before.schema = <<"p", "{", "p", "}">>
    /\ mres.kwargs = [k \in {<<"p">>} |-> <<"2">>]
    /\ mres.result.url = <<"p", "2">>

----------------------------------------------------------------------------
(* Claims about the synchronous call, checked under SpecSync *)

SyncCalls == {i \in 1..Len(calls) : calls[i].handle = "value"}

PhasesOf(trace) == [j \in 1..Len(trace) |-> trace[j].phase]

\* What the prepare hook recorded in a call's trace returns for the caller's arguments.
PlanOf(c) == Prepare(classes, c.trace[1].hook, inst[c.inst], c.name, c.args, c.kwargs)

\* The phases recorded for call c are the first n of prepare, dispatch, finalize, each
\* with the arguments GenericAPIBase.call gives it.
PhasesAsPlanned(c, self, plan, n) ==
    /\ PhasesOf(c.trace) = SubSeq(<<"prepare", "dispatch", "finalize">>, 1, n)
    /\ c.trace[1] = PrepareEvent(Lookup(classes, self.cls, Attr("prepare_", c.name, "")),
                                 c.name, c.args, c.kwargs)
    /\ n >= 2 => /\ plan.kind = "return"
                 /\ c.trace[2] = DispatchEvent(self, plan.value)
    /\ n = 3 => c.trace[3] = FinalizeEvent(Lookup(classes, self.cls, Attr("finalize_", c.name, "")),
                                           c.name, <<c.answer>> \o plan.value.args,
                                           plan.value.kwargs)

\* The caller gets finalize's result if finalize ran, and otherwise the exception of
\* the phase that stopped the call.
OutcomeOfLastPhase(c, self, plan, n) ==
    /\ n = 1 => c.outcome = plan /\ plan.kind = "raise"
    /\ n = 2 => c.outcome.kind = "raise"
    /\ n = 3 => c.outcome = Finalize(c.trace[3].hook, self, c.name, c.trace[3].pos,
                                     c.trace[3].kwargs)

\* C1 as stated: every call through GenericAPIBase.call runs prepare_X, the plan's
\* callable and finalize_X, once each and in this order, and gives the caller
\* finalize_X's result.
C1_ThreePhasesAlways ==
    \A i \in SyncCalls :
        /\ Len(calls[i].trace) = 3
        /\ PhasesAsPlanned(calls[i], inst[calls[i].inst], PlanOf(calls[i]), 3)
        /\ OutcomeOfLastPhase(calls[i], inst[calls[i].inst], PlanOf(calls[i]), 3)

\* C1, amended: every call through GenericAPIBase.call runs the phases in the order
\* prepare_X, the plan's callable, finalize_X, each at most once and each with the
\* arguments stated (the caller's for prepare_X; the instance and the plan's for the
\* callable; the name, the callable's result and the plan's for finalize_X); a phase
\* runs only if the one before returned; a call that returns has run all three and
\* returns finalize_X's result; a call stopped by an exception raises it.
C1_PhasesInOrder ==
    \A i \in SyncCalls :
        /\ Len(calls[i].trace) \in 1..3
        /\ PhasesAsPlanned(calls[i], inst[calls[i].inst], PlanOf(calls[i]), Len(calls[i].trace))
        /\ OutcomeOfLastPhase(calls[i], inst[calls[i].inst], PlanOf(calls[i]),
                              Len(calls[i].trace))
        /\ calls[i].outcome.kind = "return" => Len(calls[i].trace) = 3

\* C1 witness: a call that returned after all three phases, whose plan differs from the
\* caller's arguments (the class-wide prepare added p), beside one stopped in dispatch.
C1_Witness ==
    /\ \E i \in SyncCalls :
            /\ calls[i].outcome.kind = "return"
            /\ Len(calls[i].trace) = 3
            /\ calls[i].trace[3].kwargs # calls[i].kwargs
    /\ \E i \in SyncCalls :
            /\ calls[i].outcome.kind = "raise"
            /\ Len(calls[i].trace) = 2

\* The calls whose finalize_X is GenericAPIBase.finalize and was given a response.
DefaultFinalized ==
    {i \in SyncCalls : /\ Len(calls[i].trace) = 3
                       /\ calls[i].trace[3].hook = DefaultHook("finalize")
                       /\ calls[i].trace[3].pos[1].kind = "response"}

RaisedAPIError(c) == c.outcome.kind = "raise" /\ c.outcome.exc = "APIError"

APIErrorIffThrowAndStatus ==
    \A i \in DefaultFinalized :
        RaisedAPIError(calls[i]) <=>
            (inst[calls[i].inst].throw_on_error /\ calls[i].trace[3].pos[1].status_code >= 400)

\* What GenericAPIBase.finalize gives for a response with the same body and status 200.
AsSuccess(c) ==
    Finalize(c.trace[3].hook, inst[c.inst], c.name,
             <<Response(200, c.trace[3].pos[1].content)>> \o Tail(c.trace[3].pos),
             c.trace[3].kwargs)

IsText(content) ==
    content.kind = "str" \/ \A i \in 1..Len(content.s) : content.s[i] # "0xff"

\* What a JSON text means: 2 is the number, [] the empty list, [t] the list of what
\* the JSON text t means; no other text is JSON.
RECURSIVE JsonMeaning(_)
JsonMeaning(s) ==
    IF s = <<"2">> THEN [ok |-> TRUE, value |-> [json |-> "number", n |-> 2]]
    ELSE IF Len(s) < 2 \/ s[1] # "[" \/ s[Len(s)] # "]" THEN [ok |-> FALSE]
    ELSE IF Len(s) = 2 THEN [ok |-> TRUE, value |-> [json |-> "list", items |-> <<>>]]
    ELSE IF JsonMeaning(SubSeq(s, 2, Len(s) - 1)).ok
    THEN [ok |-> TRUE,
          value |-> [json |-> "list",
                     items |-> <<JsonMeaning(SubSeq(s, 2, Len(s) - 1)).value>>]]
    ELSE [ok |-> FALSE]

\* The outcome of the default finalize that is decided by load_json and the body.
DecidedByLoadJson(self, content, outcome) ==
    IF ~self.load_json THEN outcome = Return(content)
    ELSE IF IsText(content) /\ JsonMeaning(content.s).ok
    THEN outcome = Return([kind |-> "json", value |-> JsonMeaning(content.s).value])
    ELSE outcome.kind = "raise" /\ outcome.exc \in {"ValueError", "UnicodeDecodeError"}

C13_APIErrorCarriesCallerArgs ==
    \A i \in 1..Len(calls) :
        LET err == IF calls[i].seen_when = "complete" THEN calls[i].seen ELSE calls[i].outcome
        IN  (err.kind = "raise" /\ err.exc = "APIError") =>
                /\ err.name = calls[i].name
                /\ err.args = calls[i].args
                /\ err.kwargs = calls[i].kwargs
                /\ err.result = calls[i].answer

----------------------------------------------------------------------------
(* Claims about the asynchronous calls, checked under Spec and SpecRequest *)

AllCalls == 1..Len(calls)

\* The task of call i is in the executor's queue once while the call is queued, and
\* never otherwise.
OneTask(i) ==
    Cardinality({k \in 1..Len(queue) : queue[k] = i})
        = IF calls[i].handle = "future" /\ calls[i].status = "queued" THEN 1 ELSE 0

\* What a retrieval from a future has given so far: nothing, TimeoutError before the
\* task was over, the task's outcome after.
FutureSeen(c) ==
    \/ c.seen_when = "never" /\ c.seen = Pending
    \/ c.seen_when = "incomplete" /\ c.seen = Raise("TimeoutError")
    \/ c.seen_when = "complete" /\ c.status = "finished" /\ c.seen = c.outcome

SyncTwinClasses ==
    Define(FrameworkClasses, "Client",
           GenericAPICreatorNew(FrameworkClasses, "Client", <<"GenericAPI">>,
                                classes["Client"].body))

SyncTwin(self) ==
    NewInstance(SyncTwinClasses, self.id, "Client", self.url, self.auth,
                self.throw_on_error, self.load_json, 0)

SyncOutcomeWith(twin, c) ==
    GenericAPIBaseCall(twin.classes, twin.self, c.name, c.args, c.kwargs, c.answer).outcome

SyncOutcome(c) == SyncOutcomeWith(SyncTwin(inst[c.inst]), c)

\* C8: once the results of all the calls made on an AsyncAPI client with one worker are
\* retrieved, the set of outcomes is the set of outcomes of the same calls made
\* synchronously on a GenericAPI client.
C8_WidthOneAsSync ==
    (/\ calls # <<>>
     /\ \A i \in AllCalls : /\ inst[calls[i].inst].executors = 1
                            /\ calls[i].seen_when = "complete")
        => {calls[i].seen : i \in AllCalls} = {SyncOutcome(calls[i]) : i \in AllCalls}

\* A response GenericAPIBase.finalize raises APIError for, held by an AsyncRequest.
ErrorResponse(c) ==
    /\ c.handle = "request"
    /\ c.status = "finished"
    /\ c.outcome.kind = "return"
    /\ c.outcome.value.kind = "response"
    /\ c.outcome.value.status_code >= 400
    /\ inst[c.inst].throw_on_error
    /\ Lookup(classes, inst[c.inst].cls, Attr("finalize_", c.name, "")) = DefaultHook("finalize")

\* The call is over and failed: a phase raised, or the response is an error response.
CallFailed(c) ==
    \/ c.status \in {"raised", "finished"} /\ c.outcome.kind = "raise"
    \/ ErrorResponse(c)

\* C6: on every path, a retrieval of the result of a call that is over and failed
\* raises the error; it never returns a value.
C6_ErrorsSurfaced ==
    \A i \in AllCalls :
        (CallFailed(calls[i]) /\ calls[i].seen_when = "complete") => calls[i].seen.kind = "raise"

\* C7: what a retrieval gives when it times out before the call is over differs from
\* what a retrieval gives for a call that is over and failed.
C7_TimeoutDistinctFromError ==
    \A i \in AllCalls, j \in AllCalls :
        (/\ calls[i].seen_when = "incomplete"
         /\ calls[j].seen_when = "complete"
         /\ CallFailed(calls[j]))
            => calls[i].seen # calls[j].seen

\* What a handle is when the bound method returns it: only prepare_X has run, on the
\* caller's thread; the task is queued (the greenlet spawned) and has not started;
\* there is no answer and no outcome yet.
FreshHandle(c) ==
    /\ c.status = IF c.handle = "future" THEN "queued" ELSE "spawned"
    /\ PhasesOf(c.trace) = <<"prepare">>
    /\ c.where = <<"caller">>
    /\ c.answer = NoAnswer
    /\ c.outcome = Pending

C17_TimeoutReturnsSignal ==
    \A i \in AllCalls :
        (calls[i].handle \in {"future", "request"} /\ calls[i].seen_when = "incomplete") =>
            /\ calls[i].seen.kind = "return"
            /\ calls[i].handle = "request" => calls[i].seen = Return(NoneValue)

Dispatches(c) == Cardinality({j \in 1..Len(c.trace) : c.trace[j].phase = "dispatch"})

\* C18: for every asynchronous call that has completed, the callable ran once and
\* finalize_X ran no more than once, however many times the result was retrieved.
C18_CompletesOnce ==
    \A i \in AllCalls :
        (calls[i].handle \in {"future", "request"} /\ calls[i].status = "finished") =>
            /\ Dispatches(calls[i]) = 1
            /\ Finalizations(calls[i]) <= 1

\* A retrieval that times out changes nothing of the call but what the caller has
\* seen: the task stays where it was, with its plan, and stays in the queue.
TimeoutLeavesTask ==
    [][\A i \in 1..Len(calls) :
            (i <= Len(calls') /\ calls'[i].timed_out /\ ~calls[i].timed_out) =>
                /\ calls'[i].status = calls[i].status
                /\ calls'[i].trace = calls[i].trace
                /\ calls'[i].plan = calls[i].plan
                /\ calls'[i].outcome = calls[i].outcome
                /\ queue' = queue]_vars

\* The finalized result of a call whose request was answered: what finalize_X gives for
\* the response, which for a future is the outcome of its task.
FinalizedResult(c) ==
    IF c.handle = "future" THEN c.outcome
    ELSE FinalizePhase(Lookup(classes, inst[c.inst].cls, Attr("finalize_", c.name, "")),
                       inst[c.inst], c.name, <<c.answer>>, <<>>).outcome

\* C19: the work of a call goes on after a retrieval of its result has timed out (the
\* retrieval moved nothing, TimeoutLeavesTask), and a retrieval made after the
\* timed-out one, when the call is over and its request was answered, gives the
\* finalized result of the call.
C19_LaterRetrievalFinalized ==
    \A i \in AllCalls :
        (/\ calls[i].handle \in {"future", "request"}
         /\ calls[i].timed_out
         /\ calls[i].seen_when = "complete"
         /\ calls[i].answer \in Answers
         /\ calls[i].answer.kind = "response") => calls[i].seen = FinalizedResult(calls[i])

\* The callable of call c was a descriptor, called with keyword arguments that lack a
\* placeholder of its schema.
MissingPlaceholder(c) ==
    /\ Len(c.trace) >= 2
    /\ c.trace[2].phase = "dispatch"
    /\ c.trace[2].call.kind = "APIMethod"
    /\ c.trace[2].args = <<>>
    /\ PlaceholderNames(c.trace[2].call.descriptor.schema) \ DOMAIN c.trace[2].kwargs # {}

SentFor(e, self) ==
    e.sent.kind = "request" =>
        /\ Len(e.sent.url) >= Len(self.url)
        /\ SubSeq(e.sent.url, 1, Len(self.url)) = self.url
        /\ e.sent.auth = self.auth

\* C23: every call made on an instance is dispatched with that instance: the callable
\* is handed it, the request goes to its url with its auth, and the outcome of a call
\* that was finalized is what finalize_X gives with that instance's throw_on_error and
\* load_json, whichever instance the descriptors refer back to.
C23_CallUsesCallingInstance ==
    \A i \in AllCalls :
        /\ \A j \in 1..Len(calls[i].trace) :
                calls[i].trace[j].phase = "dispatch" =>
                    /\ calls[i].trace[j].api = calls[i].inst
                    /\ SentFor(calls[i].trace[j], inst[calls[i].inst])
        /\ (Len(calls[i].trace) = 3 /\ calls[i].trace[3].phase = "finalize") =>
                calls[i].outcome = Finalize(calls[i].trace[3].hook, inst[calls[i].inst],
                                            calls[i].name, calls[i].trace[3].pos,
                                            calls[i].trace[3].kwargs)

\* C23 witness: a call made on instance a when the descriptors referred back to b,
\* answered 404: its request went to a's url without auth, and it raised APIError as
\* a's throw_on_error has it, where b's flags give the ValueError of json.loads.
C23_Witness ==
    \E i \in AllCalls :
        /\ calls[i].inst = "a"
        /\ DOMAIN inst = InstanceIds
        /\ Len(calls[i].trace) = 3
        /\ calls[i].trace[2].call.descriptor.api = "b"
        /\ calls[i].trace[2].sent.url = <<"u", "p", "2">>
        /\ calls[i].trace[2].sent.auth = NoneValue
        /\ calls[i].answer = Response(404, Bytes(<<"p">>))
        /\ RaisedAPIError(calls[i])
        /\ Finalize(calls[i].trace[3].hook, inst["b"], calls[i].name, calls[i].trace[3].pos,
                    calls[i].trace[3].kwargs).kind = "raise"
        /\ Finalize(calls[i].trace[3].hook, inst["b"], calls[i].name, calls[i].trace[3].pos,
                    calls[i].trace[3].kwargs) # calls[i].outcome

\* Call c, made through the default prepare, has its own plan, and its dispatch and
\* its finalize_X, so far as they have run, saw the name, the arguments and the answer
\* of this call; its outcome is what finalize_X gave for them, and a retrieval after
\* the task gave this outcome.
OwnPhases(c, self) ==
    /\ c.plan.call.kind = "APIMethod"
    /\ c.plan.call.key = c.name
    /\ c.plan.args = c.args
    /\ c.plan.kwargs = c.kwargs
    /\ \A j \in 2..Len(c.trace) :
            /\ c.trace[j].phase = "dispatch" =>
                    /\ c.trace[j].call.key = c.name
                    /\ c.trace[j].args = c.args
                    /\ c.trace[j].kwargs = c.kwargs
                    /\ c.trace[j].api = c.inst
            /\ c.trace[j].phase = "finalize" =>
                    /\ c.trace[j].name = c.name
                    /\ c.trace[j].pos = c.args \o <<c.answer>>
                    /\ c.trace[j].kwargs = c.kwargs
                    /\ c.outcome = Finalize(c.trace[j].hook, self, c.name, c.trace[j].pos,
                                            c.trace[j].kwargs)
    /\ c.seen_when = "complete" => c.seen = c.outcome

OwnPhasesAlways ==
    \A i \in AllCalls :
        (calls[i].handle = "future" /\ calls[i].trace[1].hook = DefaultHook("prepare")) =>
            OwnPhases(calls[i], inst[calls[i].inst])

\* A step changes the record of one call at most.
OneCallMoves ==
    \A i \in 1..Len(calls), j \in 1..Len(calls) :
        (calls'[i] # calls[i] /\ calls'[j] # calls[j]) => i = j

\* C25: every call made through the default prepare on an AsyncAPI client has a plan of
\* its own; under every interleaving of the tasks its dispatch and its finalize_X see
\* the name, arguments and answer of that call and no other, its future holds the
\* outcome of that call, and no step of one call changes another call.
C25_CallsDoNotInterfere == []OwnPhasesAlways /\ [][OneCallMoves]_vars

\* C25 witness: on a pool of two workers the first call, comments(p=2), is still
\* waiting for its response while the second, posts(), has been answered and
\* finalized with its own empty keyword arguments and retrieved.
C25_Witness ==
    /\ Len(calls) = 2
    /\ inst[calls[1].inst].executors = 2
    /\ calls[1].trace[1].hook = DefaultHook("prepare")
    /\ calls[1].name = "comments"
    /\ calls[1].kwargs # <<>>
    /\ calls[1].status = "running"
    /\ calls[2].name = "posts"
    /\ calls[2].status = "finished"
    /\ Len(calls[2].trace) = 3
    /\ calls[2].trace[3].kwargs = <<>>
    /\ calls[2].seen_when = "complete"
    /\ calls[2].seen = calls[2].outcome

====
